---- MODULE Spec2Model ----
(***************************************************************************)
(* The campaign front end of brainrot_generator: the StepContainer         *)
(* orchestrator, the forms it mounts, the JobStatusStream effect that      *)
(* supervises one EventSource per job, and the transport calls awaiting a  *)
(* response.  Every handler of the components is one action; the render    *)
(* that follows a state change (mounting and unmounting of the stage       *)
(* components, effect cleanup and effect run) is part of that action.      *)
(***************************************************************************)
EXTENDS Integers, Sequences, FiniteSets, TLC

\* ------------------------------------------------------------------ bounds
\* generate calls issued over one run (job n is the n-th call's job_id)
MaxGenerate == 2
\* effect runs of JobStatusStream that hold an EventSource or a timer at one time
MaxAttach == 1
\* remote calls awaiting their response at one time
MaxInFlight == 2

\* ------------------------------------------------------- program constants
maxRetries == 3
BackoffUnitMs == 2000

\* ---------------------------------------------------------------- values
\* null / undefined of an optional value, and a present value
None == <<>>
Some(x) == <<x>>
\* jobId: 0 is null, n >= 1 is the job_id the n-th generate call returns
NoJob == 0
\* an error string is a tuple of its pieces; null is the empty tuple
NoError == <<>>
NumStr(n) == IF n \in 0..9 THEN <<"0", "1", "2", "3", "4", "5", "6", "7", "8", "9">>[n + 1] ELSE "n"

Steps == <<"url-submit", "highlights-select", "job-status", "upload-reels", "dm-followers", "complete">>

HighlightSegment(id, start, end, title) ==
    [id_ |-> id, start_time |-> start, end_time |-> end, title |-> title]
SegA == HighlightSegment("a", "00:00:10,000", "00:01:00,000", "Hook")
SegB == HighlightSegment("b", "00:02:00,000", "00:02:30,500", "")
\* highlights lists the extraction service may answer with
ExtractResponses == {<<>>, <<SegA>>}
\* message texts of a failed call (APIError.message / Error.message)
ErrMessages == {"Internal Server Error"}

IdsOf(hl) == {hl[i].id_ : i \in DOMAIN hl}
RemoveAt(s, i) == SubSeq(s, 1, i - 1) \o SubSeq(s, i + 1, Len(s))

\* the source URL as typed, cut into the pieces the validation looks at
UrlEmpty == <<>>
UrlBad == <<"https://", "example.com/", "v1">>
Url1 == <<"https://", "www.", "youtube.com/watch?v=", "v1">>
Url2 == <<"https://", "youtu.be/", "v2">>
UrlInputs == {UrlBad, Url1}
\* the same with a second valid URL, for the specification of the extraction stage
UrlInputsTwo == {UrlBad, Url1, Url2}
\* the subtitle languages the user picks in the select (of LANGUAGE_OPTIONS)
LanguageInputs == {"en", "hi"}

\* -------------------------------------------------------------- variables
VARIABLES
    state,        \* StepContainer: AppState
    error,        \* StepContainer: error
    urlForm,      \* URLSubmitForm: videoUrl, loading, error
    selectedIds,  \* HighlightsSelector: selectedIds
    js,           \* JobStatusStream: status, error
    handles,      \* one record per run of the JobStatusStream effect
    upForm,       \* UploadReelsForm: selectedVideos, loading, error
    dmForm,       \* DMFollowersForm: followers, selection, flags, dmResults, error
    calls,        \* remote calls awaiting their response
    nGen,         \* generate calls issued so far
    fetched       \* lib/api: the fetchJSON call under observation, response and outcome

vars == <<state, error, urlForm, selectedIds, js, handles, upForm, dmForm, calls, nGen, fetched>>

\* ------------------------------------- UploadReelsForm: the initial titles
\* A file path is the concatenation of a sequence of these pieces. No piece
\* can be formed by joining or cutting other pieces, so a search for "/",
\* ".mp4", "out_" or "_" in the string finds exactly the pieces of that name
\* ("out_" holds one "_").
PathPieces == {"/", "out_", ".mp4", "_", "a", "b"}
\* the longest path, in pieces
MaxPathLen == 4
Paths == UNION {[1..n -> PathPieces] : n \in 0..MaxPathLen}

\* the string a sequence of pieces stands for
RECURSIVE Join(_)
Join(pieces) == IF pieces = <<>> THEN "" ELSE Head(pieces) \o Join(Tail(pieces))

\* path.split('/').pop()
FileNameOf(path) ==
    LET slashes == {i \in DOMAIN path : path[i] = "/"}
        last == IF slashes = {} THEN 0 ELSE CHOOSE i \in slashes : \A k \in slashes : k <= i
    IN  SubSeq(path, last + 1, Len(path))
\* s.replace('.mp4', ''): the first occurrence only, wherever it is
ReplaceFirst(s, piece) ==
    LET at == {i \in DOMAIN s : s[i] = piece}
    IN  IF at = {} THEN s ELSE RemoveAt(s, CHOOSE i \in at : \A k \in at : i <= k)
\* s.replace(/^out_/, '')
StripOutPrefix(s) == IF s # <<>> /\ s[1] = "out_" THEN Tail(s) ELSE s
\* s.replace(/_/g, ' '), piece by piece
Spaced(piece) ==
    CASE piece = "_" -> " " [] piece = "out_" -> "out " [] OTHER -> piece
\* charAt(0).toUpperCase() of a piece
Capitalised(piece) ==
    CASE piece = "a" -> "A" [] piece = "b" -> "B" [] piece = "out " -> "Out " [] OTHER -> piece
\* new Map(selectedHighlights.map(h => [h.id_, h.title])).get(id): the title
\* of the last segment with that id_, None for undefined
highlightTitles_get(selectedHighlights, id) ==
    LET at == {i \in DOMAIN selectedHighlights : selectedHighlights[i].id_ = id}
    IN  IF at = {} THEN None
        ELSE Some(selectedHighlights[CHOOSE i \in at : \A k \in at : k <= i].title)

\* the body of finishedVideos.forEach: the title proposed for `path`
initialTitle(path, selectedHighlights) ==
    LET filename == ReplaceFirst(FileNameOf(path), ".mp4")
        highlightId == Join(StripOutPrefix(filename))
        highlightTitle == highlightTitles_get(selectedHighlights, highlightId)
        stripped == StripOutPrefix(filename)
        cleanTitle == [i \in DOMAIN stripped |-> Spaced(stripped[i])]
    IN  IF highlightTitle # None /\ highlightTitle[1] # ""
        THEN highlightTitle[1]
        ELSE IF cleanTitle = <<>> THEN ""
             ELSE Capitalised(Head(cleanTitle)) \o Join(Tail(cleanTitle))

\* ------------------------------------------------------- initial values
AppStateInit ==
    [currentStep |-> "url-submit", highlights |-> <<>>, selectedHighlights |-> <<>>,
     videoUrl |-> UrlEmpty, language |-> "en", noAutoSubs |-> FALSE,
     jobId |-> NoJob, finishedVideos |-> <<>>, reelLinks |-> <<>>]

UrlFormInit ==
    [videoUrl |-> UrlEmpty, language |-> "en", noAutoSubs |-> FALSE,
     loading |-> FALSE, error |-> NoError]
JSInit == [status |-> None, error |-> NoError]
\* UploadReelsForm at its mount: every video selected, the titles proposed
UpFormInit(finishedVideos, selectedHighlights) ==
    [selectedVideos |-> {finishedVideos[i] : i \in DOMAIN finishedVideos},
     titles |-> [p \in {finishedVideos[i] : i \in DOMAIN finishedVideos} |->
                    initialTitle(p, selectedHighlights)],
     loading |-> FALSE, error |-> NoError]
DmFormInit ==
    [followers |-> <<>>, selectedFollowers |-> {}, loadingFollowers |-> TRUE,
     sendingDMs |-> FALSE, dmResults |-> None, error |-> NoError]

\* A call awaiting its response: its kind, whether the component that issued
\* it is still mounted, and what its continuation uses: the submitted URL of
\* an extract call with its language and noAutoSubs, the chosen segments and the job_id the service will
\* answer of a generate call (its video_url is left out), the reels of an
\* upload call, the followers of a dm call.
Call(kind, url, sel, job) ==
    [kind |-> kind, live |-> TRUE, url |-> url, language |-> "en", noAutoSubs |-> FALSE,
     sel |-> sel, job |-> job]

\* ---------------------------------------------------- lib/api: transport
\* no fetchJSON call is under observation
NotFetched == [response |-> None, outcome |-> None]

\* what fetch() may come back with: a rejection (the network failed), or a
\* Response with its status, statusText and body; a body is its text and,
\* where the text is JSON, the value JSON.parse gives
HttpStatuses == {200, 201, 400, 404, 500, 503}
StatusTexts == {"", "Not Found", "Internal Server Error"}
Bodies ==
    {[text |-> "", json |-> None],
     [text |-> "{\"followers\":[]}", json |-> Some("followers: []")],
     [text |-> "{\"detail\":\"Video not found\"}", json |-> Some("detail: Video not found")],
     [text |-> "<html>Bad Gateway</html>", json |-> None]}
FetchRejected == [rejected |-> TRUE, status |-> 0, statusText |-> "", body |-> [text |-> "", json |-> None]]
Responses ==
    {FetchRejected} \cup
    [rejected : {FALSE}, status : HttpStatuses, statusText : StatusTexts, body : Bodies]
\* response.ok
ResponseOk(r) == r.status \in 200..299

\* how a fetchJSON call ends: with the value, or with a thrown error of a class
Returned(value) == [kind |-> "value", status |-> 0, message |-> "", value |-> value]
Thrown(kind, status, message) == [kind |-> kind, status |-> status, message |-> message, value |-> None]
\* new APIError(status, message)
APIError(status, message) == Thrown("APIError", status, message)

\* the message of the SyntaxError that JSON.parse (within response.json())
\* throws for a text that is not JSON: it names the end of the input for an
\* empty text, and the first token it cannot read otherwise
JsonSyntaxError(text) ==
    CASE text = "" -> "Unexpected end of JSON input"
      [] text = "<html>Bad Gateway</html>" ->
            "Unexpected token '<', \"<html>Bad \"... is not valid JSON"

\* fetchJSON: await fetch (a rejection propagates as the TypeError it is);
\* a response that is not ok throws APIError(status, errorText || statusText);
\* otherwise response.json(), whose SyntaxError propagates
fetchJSON(r) ==
    IF r.rejected THEN Thrown("TypeError", 0, "Failed to fetch")
    ELSE IF ~ResponseOk(r)
    THEN APIError(r.status, IF r.body.text # "" THEN r.body.text ELSE r.statusText)
    ELSE IF r.body.json # None THEN Returned(r.body.json)
    ELSE Thrown("SyntaxError", 0, JsonSyntaxError(r.body.text))
\* parseJobStreamData: JSON.parse of the event's data, which throws on text
\* that is not JSON and returns the value otherwise
JsonParses(data) == data.json
parseJobStreamData(data) == data.value[1]

JobStreamUpdate(job, status, progress, task, videos, errorMessage) ==
    [job_id |-> job, status |-> status, progress |-> progress, current_task |-> task,
     finished_videos |-> videos, error_message |-> errorMessage,
     created_at |-> "t0", updated_at |-> "t1"]
\* file paths of generated videos, in pieces: "/out_a.mp4" and "/out_b.mp4"
VideoA == <<"/", "out_", "a", ".mp4">>
VideoB == <<"/", "out_", "b", ".mp4">>
\* the event payloads the job runner's stream may carry for job j
Malformed == [json |-> FALSE, value |-> None]
Payloads(j) ==
    {Malformed} \cup
    {[json |-> TRUE, value |-> Some(u)] : u \in
        {JobStreamUpdate(j, "generating", Some(40), Some("render"), <<>>, None),
         JobStreamUpdate(j, "finished", Some(100), None, <<VideoA>>, None),
         JobStreamUpdate(j, "finished", Some(100), None, <<>>, None),
         JobStreamUpdate(j, "error", None, None, <<VideoB>>, Some("ffmpeg failed"))}}

\* ------------------------------------------- JobStatusStream: the effect
\* createJobStream(jobId): a new EventSource, connecting
NewEventSource(initial) == [st |-> "connecting", initial |-> initial]

\* the effect body: retryCount = 0, retryTimeout undefined, eventSource = connectToStream()
EffectRun(job) ==
    [job |-> job, mounted |-> TRUE, retryCount |-> 0,
     conns |-> {NewEventSource(TRUE)}, timers |-> {},
     released |-> FALSE, nTerminal |-> 0]

\* EffectCleanup without the clearTimeout
EffectCleanup_NoClearTimeout(h) ==
    [h EXCEPT !.conns = {c \in @ : ~c.initial}, !.released = TRUE]

\* the effect's cleanup: clearTimeout(retryTimeout); eventSource.close()
EffectCleanup(h) ==
    [h EXCEPT !.timers = {t \in @ : ~t.latest},
              !.conns = {c \in @ : ~c.initial},
              !.released = TRUE]

\* BackoffDelay doubling with each retry
BackoffDelay_Doubling(retryCount) == BackoffUnitMs * (2 ^ (retryCount - 1))

\* the delay of the retry timer, from the incremented retryCount
BackoffDelay(retryCount) == BackoffUnitMs * retryCount

\* es_onopen without the reset of retryCount
es_onopen_NoReset(h, c) ==
    [h EXCEPT !.conns = (@ \ {c}) \cup {[c EXCEPT !.st = "open"]}]

\* es.onopen, the closure's part
es_onopen(h, c) ==
    [h EXCEPT !.conns = (@ \ {c}) \cup {[c EXCEPT !.st = "open"]},
              !.retryCount = 0]
\* es.onopen, the component's part
onopen_state(j) == [j EXCEPT !.error = NoError]

\* onmessage_state dropping the held update when the parse fails
onmessage_state_DropsStatus(j, data) ==
    IF data.json
    THEN [j EXCEPT !.status = Some(data.value[1]), !.error = NoError]
    ELSE [j EXCEPT !.status = None, !.error = <<"Failed to parse status update">>]

\* onmessage_conns closing the EventSource on a terminal update
onmessage_conns_ClosesOnTerminal(h, c, data) ==
    IF data.json /\ data.value[1].status \in {"finished", "error"}
    THEN [h EXCEPT !.conns = @ \ {c}]
    ELSE h

\* onmessage_state clearing the snapshot when the update it holds comes again
onmessage_state_DropsRepeated(j, data) ==
    IF data.json
    THEN IF j.status = Some(data.value[1])
         THEN [j EXCEPT !.status = None, !.error = NoError]
         ELSE [j EXCEPT !.status = Some(data.value[1]), !.error = NoError]
    ELSE [j EXCEPT !.error = <<"Failed to parse status update">>]

\* onmessage_state keeping the error_message of the snapshot before when the
\* new update has none
onmessage_state_MergesErrorMessage(j, data) ==
    IF data.json
    THEN LET u == data.value[1] IN
         IF j.status # None /\ u.error_message = None
         THEN [j EXCEPT !.status = Some([u EXCEPT !.error_message = j.status[1].error_message]),
                        !.error = NoError]
         ELSE [j EXCEPT !.status = Some(u), !.error = NoError]
    ELSE [j EXCEPT !.error = <<"Failed to parse status update">>]

\* es.onmessage: no change of the closure; the component's part
onmessage_conns(h, c, data) == h
onmessage_state(j, data) ==
    IF JsonParses(data)
    THEN [j EXCEPT !.status = Some(parseJobStreamData(data)), !.error = NoError]
    ELSE [j EXCEPT !.error = <<"Failed to parse status update">>]

\* CloseEs leaving the failed EventSource as it is
CloseEs_Skipped(conns, c) == conns

\* es.close() on the failed EventSource
CloseEs(conns, c) == conns \ {c}

\* es_onerror retrying while retryCount <= maxRetries
es_onerror_OneMoreRetry(h, c) ==
    LET closed == [h EXCEPT !.conns = @ \ {c}] IN
    IF h.retryCount <= maxRetries
    THEN [closed EXCEPT
            !.retryCount = @ + 1,
            !.timers = {[t EXCEPT !.latest = FALSE] : t \in @}
                       \cup {[delay |-> BackoffUnitMs * (h.retryCount + 1), latest |-> TRUE]}]
    ELSE [closed EXCEPT !.nTerminal = @ + 1]

\* es.onerror, the closure's part
es_onerror(h, c) ==
    LET closed == [h EXCEPT !.conns = CloseEs(@, c)] IN
    IF h.retryCount < maxRetries
    THEN [closed EXCEPT
            !.retryCount = @ + 1,
            !.timers = {[t EXCEPT !.latest = FALSE] : t \in @}
                       \cup {[delay |-> BackoffDelay(h.retryCount + 1), latest |-> TRUE]}]
    ELSE [closed EXCEPT !.nTerminal = @ + 1]
\* es.onerror, the component's part
onerror_state(h, j) ==
    IF h.retryCount < maxRetries
    THEN [j EXCEPT !.error = <<"Connection failed, retrying (", NumStr(h.retryCount + 1),
                               "/", NumStr(maxRetries), ")...">>]
    ELSE [j EXCEPT !.error = <<"Connection to status stream failed after multiple attempts">>]

\* timer_fired that starts the count of retries anew with each reconnection
timer_fired_ResetsRetryCount(h, t) ==
    [h EXCEPT !.timers = @ \ {t}, !.conns = @ \cup {NewEventSource(FALSE)},
              !.retryCount = 0]

\* timer_fired for a timer that stays armed (setInterval for setTimeout)
timer_fired_Interval(h, t) ==
    [h EXCEPT !.conns = @ \cup {NewEventSource(FALSE)}]

\* the retry timer's callback: connectToStream()
timer_fired(h, t) ==
    [h EXCEPT !.timers = @ \ {t}, !.conns = @ \cup {NewEventSource(FALSE)}]

\* --------------------------------------------------- StepContainer: render
\* {state.currentStep === "job-status" && state.jobId && <JobStatusStream .../>}
JSMounted(s) == s.currentStep = "job-status" /\ s.jobId # NoJob

\* the form a call was issued by, as the stage that mounts it
FormOf(kind) ==
    CASE kind = "extract" -> "url-submit"
      [] kind = "upload" -> "upload-reels"
      [] kind = "followers" -> "dm-followers"
      [] kind = "dm" -> "dm-followers"
      [] OTHER -> "container"

\* A slot of `handles` holds one run of the effect.  A run whose cleanup has
\* run and that holds neither an EventSource nor a timer can do nothing any
\* more: its slot is free again.
FreeSlot ==
    [job |-> NoJob, mounted |-> FALSE, retryCount |-> 0, conns |-> {}, timers |-> {},
     released |-> TRUE, nTerminal |-> 0]
Garbage(h) == h.released /\ h.conns = {} /\ h.timers = {}
Collect(hs) == [i \in DOMAIN hs |-> IF Garbage(hs[i]) THEN FreeSlot ELSE hs[i]]
FreeSlots(hs) == {i \in DOMAIN hs : hs[i] = FreeSlot}
Lowest(S) == CHOOSE i \in S : \A k \in S : i <= k

\* the JobStatusStream effect over a render from s1 to s2: cleanup when the
\* component unmounts or jobId changes, run when it mounts or jobId changes.
\* The run in force is the one not yet cleaned up.
Effects(hs, s1, s2) ==
    LET was == JSMounted(s1)
        is == JSMounted(s2)
        rerun == was /\ is /\ s1.jobId # s2.jobId
        cleaned == IF was /\ (~is \/ rerun)
                   THEN [i \in DOMAIN hs |-> IF hs[i].released THEN hs[i] ELSE EffectCleanup(hs[i])]
                   ELSE hs
        unmounted == IF was /\ ~is
                     THEN [i \in DOMAIN cleaned |-> [cleaned[i] EXCEPT !.mounted = FALSE]]
                     ELSE cleaned
        kept == Collect(unmounted)
    IN  IF is /\ (~was \/ rerun)
        THEN IF FreeSlots(kept) = {} THEN kept
             ELSE [kept EXCEPT ![Lowest(FreeSlots(kept))] = EffectRun(s2.jobId)]
        ELSE kept

\* a render that needs a slot for a new effect run finds one
SlotFound(hs, s1, s2) ==
    JSMounted(s2) => \E i \in DOMAIN hs : ~hs[i].released /\ hs[i].job = s2.jobId

\* does a setState made by effect run h reach a mounted component?
Effective(h) == handles[h].mounted

\* One render: the new AppState and container error, and for each component
\* the values its handlers left; a component not mounted holds nothing, a
\* component newly mounted starts from its initial state.
Render(s2, e2, uf, sel, j, hs, up, dm, cs) ==
    LET s1 == state
        kept(stage) == s1.currentStep = stage /\ s2.currentStep = stage
        enter(stage) == s1.currentStep # stage /\ s2.currentStep = stage
        orphaned == [i \in DOMAIN cs |->
                        IF FormOf(cs[i].kind) = s1.currentStep /\ s2.currentStep # s1.currentStep
                        THEN [cs[i] EXCEPT !.live = FALSE] ELSE cs[i]]
    IN
    /\ state' = s2
    /\ error' = e2
    /\ urlForm' = IF kept("url-submit") THEN uf ELSE UrlFormInit
    /\ selectedIds' = IF kept("highlights-select") THEN sel ELSE {}
    /\ js' = IF JSMounted(s1) /\ JSMounted(s2) THEN j ELSE JSInit
    /\ handles' = Effects(hs, s1, s2)
    /\ SlotFound(handles', s1, s2)
    /\ upForm' = IF kept("upload-reels") THEN up
                 ELSE IF enter("upload-reels") THEN UpFormInit(s2.finishedVideos, s2.selectedHighlights)
                 ELSE UpFormInit(<<>>, <<>>)
    /\ dmForm' = IF kept("dm-followers") THEN dm ELSE DmFormInit
    /\ calls' = IF enter("dm-followers")
                THEN Append(orphaned, Call("followers", UrlEmpty, <<>>, NoJob))
                ELSE orphaned
    /\ Len(calls') <= MaxInFlight

\* a handler of the container alone: nothing of the components is touched
Goto(s2, e2) == Render(s2, e2, urlForm, selectedIds, js, handles, upForm, dmForm, calls)

\* ------------------------------------------- StepContainer: the handlers
\* the setState updaters, as functions of prev
\* handleHighlightsSuccess
handleHighlightsSuccess(prev, highlights, videoUrl, language, noAutoSubs) ==
    [prev EXCEPT !.currentStep = "highlights-select", !.highlights = highlights,
                 !.videoUrl = videoUrl, !.language = language, !.noAutoSubs = noAutoSubs]
\* handleBackToUrl dropping the extracted highlights as well
handleBackToUrl_DropsHighlights(prev) ==
    [prev EXCEPT !.currentStep = "url-submit", !.jobId = NoJob, !.highlights = <<>>]
\* handleBackToUrl
handleBackToUrl(prev) == [prev EXCEPT !.currentStep = "url-submit", !.jobId = NoJob]
handleGenerateSuccess(prev, selectedHighlights, job) ==
    [prev EXCEPT !.currentStep = "job-status", !.selectedHighlights = selectedHighlights,
                 !.jobId = job]
handleBackToHighlights(prev) == [prev EXCEPT !.currentStep = "highlights-select", !.jobId = NoJob]
handleRestart(prev) == [prev EXCEPT !.currentStep = "highlights-select", !.jobId = NoJob]
handleJobComplete(prev, finishedVideos) ==
    [prev EXCEPT !.currentStep = "upload-reels", !.finishedVideos = finishedVideos]
handleBackToJobStatus(prev) == [prev EXCEPT !.currentStep = "job-status"]
handleUploadSuccess(prev, reelLinks) ==
    [prev EXCEPT !.currentStep = "dm-followers", !.reelLinks = reelLinks]
handleBackToUpload(prev) == [prev EXCEPT !.currentStep = "upload-reels"]
handleCampaignComplete(prev) == [prev EXCEPT !.currentStep = "complete"]
\* handleStartNewCampaign keeping the options of the campaign before
handleStartNewCampaign_KeepsOptions ==
    [currentStep |-> "url-submit", highlights |-> <<>>, selectedHighlights |-> <<>>,
     videoUrl |-> UrlEmpty, language |-> state.language, noAutoSubs |-> state.noAutoSubs,
     jobId |-> NoJob, finishedVideos |-> <<>>, reelLinks |-> <<>>]
\* handleStartNewCampaign: setState of a literal, prev is not used
handleStartNewCampaign ==
    [currentStep |-> "url-submit", highlights |-> <<>>, selectedHighlights |-> <<>>,
     videoUrl |-> UrlEmpty, language |-> "en", noAutoSubs |-> FALSE,
     jobId |-> NoJob, finishedVideos |-> <<>>, reelLinks |-> <<>>]

\* the catch blocks' message for a failed call
FailureText(prefix, msg) == <<prefix, msg>>

\* ------------------------------------------------------- URLSubmitForm
\* validateYouTubeURL accepting every text
validateYouTubeURL_AcceptsAll(url) == TRUE

\* validateYouTubeURL: /^(https?:\/\/)?(www\.)?(youtube\.com\/watch\?v=|youtu\.be\/)[\w-]+/
validateYouTubeURL(url) ==
    LET afterScheme == IF Len(url) > 0 /\ url[1] \in {"http://", "https://"} THEN Tail(url) ELSE url
        afterWww == IF Len(afterScheme) > 0 /\ afterScheme[1] = "www." THEN Tail(afterScheme) ELSE afterScheme
    IN  /\ Len(afterWww) >= 2
        /\ afterWww[1] \in {"youtube.com/watch?v=", "youtu.be/"}
        /\ afterWww[2] \notin {"", " "}
\* <Input type="url"> inside the form: the browser delivers the submit event
\* for an empty value (the input is not required) and for an absolute URL
typeUrlValid(url) == IF Len(url) = 0 THEN TRUE ELSE url[1] \in {"http://", "https://"}
\* !videoUrl.trim()
TrimIsEmpty(url) == \A i \in DOMAIN url : url[i] \in {"", " "}

\* onChange of the URL input (disabled while loading)
SetVideoUrl(u) ==
    /\ state.currentStep = "url-submit"
    /\ ~urlForm.loading
    /\ u # urlForm.videoUrl
    /\ urlForm' = [urlForm EXCEPT !.videoUrl = u]
    /\ UNCHANGED <<state, error, selectedIds, js, handles, upForm, dmForm, calls, nGen, fetched>>

\* onValueChange of the language select (disabled while loading): setLanguage
SetLanguage(l) ==
    /\ state.currentStep = "url-submit"
    /\ ~urlForm.loading
    /\ l # urlForm.language
    /\ urlForm' = [urlForm EXCEPT !.language = l]
    /\ UNCHANGED <<state, error, selectedIds, js, handles, upForm, dmForm, calls, nGen, fetched>>

\* onCheckedChange of the noAutoSubs switch (disabled while loading):
\* setNoAutoSubs with the position the switch was not in
SetNoAutoSubs(b) ==
    /\ state.currentStep = "url-submit"
    /\ ~urlForm.loading
    /\ b # urlForm.noAutoSubs
    /\ urlForm' = [urlForm EXCEPT !.noAutoSubs = b]
    /\ UNCHANGED <<state, error, selectedIds, js, handles, upForm, dmForm, calls, nGen, fetched>>

\* handleSubmit up to the await (the submit button is disabled while loading)
Submit ==
    /\ state.currentStep = "url-submit"
    /\ ~urlForm.loading
    /\ typeUrlValid(urlForm.videoUrl)
    /\ IF TrimIsEmpty(urlForm.videoUrl)
       THEN /\ urlForm' = [urlForm EXCEPT !.error = <<"Please enter a YouTube URL">>]
            /\ calls' = calls
       ELSE IF ~validateYouTubeURL(urlForm.videoUrl)
       THEN /\ urlForm' = [urlForm EXCEPT !.error = <<"Please enter a valid YouTube URL">>]
            /\ calls' = calls
       ELSE /\ Len(calls) < MaxInFlight
            /\ urlForm' = [urlForm EXCEPT !.error = NoError, !.loading = TRUE]
            /\ calls' = Append(calls, [Call("extract", urlForm.videoUrl, <<>>, NoJob) EXCEPT
                                           !.language = urlForm.language,
                                           !.noAutoSubs = urlForm.noAutoSubs])
    /\ UNCHANGED <<state, error, selectedIds, js, handles, upForm, dmForm, nGen, fetched>>

\* handleSubmit after the await: extractHighlights resolved with `highlights`
ExtractSuccess(i, highlights) ==
    /\ i \in DOMAIN calls /\ calls[i].kind = "extract"
    /\ Render(handleHighlightsSuccess(state, highlights, calls[i].url, calls[i].language,
                                      calls[i].noAutoSubs), NoError,
              [urlForm EXCEPT !.loading = IF calls[i].live THEN FALSE ELSE @],
              selectedIds, js, handles, upForm, dmForm, RemoveAt(calls, i))
    /\ UNCHANGED <<nGen, fetched>>

\* handleSubmit after the await: extractHighlights rejected
ExtractFailure(i, msg) ==
    /\ i \in DOMAIN calls /\ calls[i].kind = "extract"
    /\ urlForm' = IF calls[i].live
                  THEN [urlForm EXCEPT !.error = FailureText("Failed to extract highlights: ", msg),
                                       !.loading = FALSE]
                  ELSE urlForm
    /\ calls' = RemoveAt(calls, i)
    /\ UNCHANGED <<state, error, selectedIds, js, handles, upForm, dmForm, nGen, fetched>>

\* ---------------------------------------------------- HighlightsSelector
toggleHighlight(ids, id) == IF id \in ids THEN ids \ {id} ELSE ids \cup {id}
selectAll(highlights) == IdsOf(highlights)
clearAll == {}
\* handleGenerate: highlights.filter((h) => selectedIds.has(h.id_))
SelectedHighlights(highlights, ids) == SelectSeq(highlights, LAMBDA h : h.id_ \in ids)

ToggleHighlight(id) ==
    /\ state.currentStep = "highlights-select"
    /\ id \in IdsOf(state.highlights)
    /\ selectedIds' = toggleHighlight(selectedIds, id)
    /\ UNCHANGED <<state, error, urlForm, js, handles, upForm, dmForm, calls, nGen, fetched>>

SelectAll ==
    /\ state.currentStep = "highlights-select"
    /\ Cardinality(selectedIds) # Len(state.highlights)
    /\ selectedIds' = selectAll(state.highlights)
    /\ UNCHANGED <<state, error, urlForm, js, handles, upForm, dmForm, calls, nGen, fetched>>

ClearAll ==
    /\ state.currentStep = "highlights-select"
    /\ Cardinality(selectedIds) # 0
    /\ selectedIds' = clearAll
    /\ UNCHANGED <<state, error, urlForm, js, handles, upForm, dmForm, calls, nGen, fetched>>

\* the Back button of the selector
BackToUrl ==
    /\ state.currentStep = "highlights-select"
    /\ Goto(handleBackToUrl(state), NoError)
    /\ UNCHANGED <<nGen, fetched>>

\* is the Generate button there, and may it be pressed?
GenerateAvailable == state.currentStep = "highlights-select" /\ Cardinality(selectedIds) > 0

\* the Generate button: handleGenerate, then handleGenerateVideos up to the await
Generate ==
    /\ GenerateAvailable
    /\ nGen < MaxGenerate
    /\ Len(calls) < MaxInFlight
    /\ error' = NoError
    /\ calls' = Append(calls, Call("generate", UrlEmpty,
                                   SelectedHighlights(state.highlights, selectedIds), nGen + 1))
    /\ nGen' = nGen + 1
    /\ UNCHANGED <<state, urlForm, selectedIds, js, handles, upForm, dmForm, fetched>>

\* handleGenerateVideos after the await: generateVideos resolved with job_id
GenerateSuccess(i) ==
    /\ i \in DOMAIN calls /\ calls[i].kind = "generate"
    /\ Render(handleGenerateSuccess(state, calls[i].sel, calls[i].job), error,
              urlForm, selectedIds, js, handles, upForm, dmForm, RemoveAt(calls, i))
    /\ UNCHANGED <<nGen, fetched>>

\* handleGenerateVideos after the await: generateVideos rejected
GenerateFailure(i, msg) ==
    /\ i \in DOMAIN calls /\ calls[i].kind = "generate"
    /\ error' = FailureText("Failed to start video generation: ", msg)
    /\ calls' = RemoveAt(calls, i)
    /\ UNCHANGED <<state, urlForm, selectedIds, js, handles, upForm, dmForm, nGen, fetched>>

\* ------------------------------------------- JobStatusStream: the events
\* the component's state after a setState made by effect run h
AfterEvent(h, j) == IF Effective(h) THEN j ELSE js

\* the open acknowledgment of EventSource c of effect run h
StreamOpen(h, c) ==
    /\ h \in DOMAIN handles /\ c \in handles[h].conns /\ c.st = "connecting"
    /\ handles' = [handles EXCEPT ![h] = es_onopen(@, c)]
    /\ js' = AfterEvent(h, onopen_state(js))
    /\ UNCHANGED <<state, error, urlForm, selectedIds, upForm, dmForm, calls, nGen, fetched>>

\* StreamMessage storing the videos of a finished update in the Campaign State
StreamMessage_StoresVideos(h, c, data) ==
    /\ h \in DOMAIN handles /\ c \in handles[h].conns /\ c.st = "open"
    /\ handles' = [handles EXCEPT ![h] = onmessage_conns(@, c, data)]
    /\ js' = AfterEvent(h, onmessage_state(js, data))
    /\ state' = IF data.json /\ data.value[1].status = "finished"
                THEN [state EXCEPT !.finishedVideos = data.value[1].finished_videos]
                ELSE state
    /\ UNCHANGED <<error, urlForm, selectedIds, upForm, dmForm, calls, nGen, fetched>>

\* a message event with payload `data` on the open EventSource c
StreamMessage(h, c, data) ==
    /\ h \in DOMAIN handles /\ c \in handles[h].conns /\ c.st = "open"
    /\ handles' = [handles EXCEPT ![h] = onmessage_conns(@, c, data)]
    /\ js' = AfterEvent(h, onmessage_state(js, data))
    /\ UNCHANGED <<state, error, urlForm, selectedIds, upForm, dmForm, calls, nGen, fetched>>

\* an error event on EventSource c (connecting or open)
StreamError(h, c) ==
    /\ h \in DOMAIN handles /\ c \in handles[h].conns
    /\ handles' = Collect([handles EXCEPT ![h] = es_onerror(@, c)])
    /\ js' = AfterEvent(h, onerror_state(handles[h], js))
    /\ UNCHANGED <<state, error, urlForm, selectedIds, upForm, dmForm, calls, nGen, fetched>>

\* the retry timer t of effect run h fires
TimerFire(h, t) ==
    /\ h \in DOMAIN handles /\ t \in handles[h].timers
    /\ handles' = [handles EXCEPT ![h] = timer_fired(@, t)]
    /\ UNCHANGED <<state, error, urlForm, selectedIds, js, upForm, dmForm, calls, nGen, fetched>>

\* ------------------------------------------ JobStatusStream: the buttons
StatusIs(j, tags) == j.status # None /\ j.status[1].status \in tags
isCompleted(j) == StatusIs(j, {"finished", "error"})
\* where a button wired to onRestart is rendered
RestartAvailable(j) ==
    \/ j.error # NoError /\ j.status = None
    \/ j.status # None /\ j.status[1].error_message # None
    \/ isCompleted(j)
\* CompleteAvailable for every terminal update that carries a video
CompleteAvailable_AnyTerminal(j) ==
    /\ isCompleted(j)
    /\ Len(j.status[1].finished_videos) > 0

\* where the Continue to Upload button is rendered
CompleteAvailable(j) ==
    /\ StatusIs(j, {"finished"})
    /\ Len(j.status[1].finished_videos) > 0

\* Back / Start Over: onBack
BackToHighlights ==
    /\ JSMounted(state)
    /\ Goto(handleBackToHighlights(state), NoError)
    /\ UNCHANGED <<nGen, fetched>>

\* Try Again / Generate More: onRestart
Restart ==
    /\ JSMounted(state)
    /\ RestartAvailable(js)
    /\ Goto(handleRestart(state), NoError)
    /\ UNCHANGED <<nGen, fetched>>

\* Continue to Upload: onComplete(status.finished_videos)
JobComplete ==
    /\ JSMounted(state)
    /\ CompleteAvailable(js)
    /\ Goto(handleJobComplete(state, js.status[1].finished_videos), NoError)
    /\ UNCHANGED <<nGen, fetched>>

\* ------------------------------------------------------ UploadReelsForm
\* answers of the upload service and of the followers service
ReelLinksResponses == {<<"https://youtu.be/r1">>}
FollowersResponses == {<<>>, <<"f1">>}

\* the titles the user types into the title input of a video
TitleInputs == {"", "My title"}

\* reelsToUpload: file_path and title: titles[videoPath] || "Generated Short"
ReelsToUpload(selectedVideos, titles) ==
    {[file_path |-> v,
      title |-> IF titles[v] = "" THEN "Generated Short" ELSE titles[v]] : v \in selectedVideos}

toggleVideo(sel, v) == IF v \in sel THEN sel \ {v} ELSE sel \cup {v}

\* the checkbox of a finished video (disabled while loading)
ToggleVideo(i) ==
    /\ state.currentStep = "upload-reels"
    /\ i \in DOMAIN state.finishedVideos
    /\ ~upForm.loading
    /\ upForm' = [upForm EXCEPT !.selectedVideos = toggleVideo(@, state.finishedVideos[i])]
    /\ UNCHANGED <<state, error, urlForm, selectedIds, js, handles, dmForm, calls, nGen, fetched>>

\* Select All of the upload stage (disabled when all are selected, or loading)
UploadSelectAll ==
    /\ state.currentStep = "upload-reels"
    /\ Len(state.finishedVideos) > 0
    /\ Cardinality(upForm.selectedVideos) # Len(state.finishedVideos)
    /\ ~upForm.loading
    /\ upForm' = [upForm EXCEPT !.selectedVideos =
                    {state.finishedVideos[i] : i \in DOMAIN state.finishedVideos}]
    /\ UNCHANGED <<state, error, urlForm, selectedIds, js, handles, dmForm, calls, nGen, fetched>>

\* Clear All of the upload stage (disabled when none is selected, or loading)
UploadClearAll ==
    /\ state.currentStep = "upload-reels"
    /\ Len(state.finishedVideos) > 0
    /\ Cardinality(upForm.selectedVideos) # 0
    /\ ~upForm.loading
    /\ upForm' = [upForm EXCEPT !.selectedVideos = {}]
    /\ UNCHANGED <<state, error, urlForm, selectedIds, js, handles, dmForm, calls, nGen, fetched>>

\* onChange of the title input of video i (disabled unless the video is
\* selected, and while loading): updateTitle
UpdateTitle(i, title) ==
    /\ state.currentStep = "upload-reels"
    /\ i \in DOMAIN state.finishedVideos
    /\ state.finishedVideos[i] \in upForm.selectedVideos
    /\ ~upForm.loading
    /\ title # upForm.titles[state.finishedVideos[i]]
    /\ upForm' = [upForm EXCEPT !.titles[state.finishedVideos[i]] = title]
    /\ UNCHANGED <<state, error, urlForm, selectedIds, js, handles, dmForm, calls, nGen, fetched>>

\* is the Upload button there, and enabled?
UploadAvailable ==
    /\ state.currentStep = "upload-reels"
    /\ Len(state.finishedVideos) > 0
    /\ Cardinality(upForm.selectedVideos) > 0
    /\ ~upForm.loading

\* handleUpload up to the await
Upload ==
    /\ UploadAvailable
    /\ Len(calls) < MaxInFlight
    /\ upForm' = [upForm EXCEPT !.error = NoError, !.loading = TRUE]
    /\ calls' = Append(calls, Call("upload", UrlEmpty, ReelsToUpload(upForm.selectedVideos, upForm.titles), NoJob))
    /\ UNCHANGED <<state, error, urlForm, selectedIds, js, handles, dmForm, nGen, fetched>>

\* handleUpload after the await: uploadReels resolved with reel_links
UploadSuccess(i, reelLinks) ==
    /\ i \in DOMAIN calls /\ calls[i].kind = "upload"
    /\ Render(handleUploadSuccess(state, reelLinks), NoError, urlForm, selectedIds, js, handles,
              [upForm EXCEPT !.loading = IF calls[i].live THEN FALSE ELSE @],
              dmForm, RemoveAt(calls, i))
    /\ UNCHANGED <<nGen, fetched>>

\* handleUpload after the await: uploadReels rejected
UploadFailure(i, msg) ==
    /\ i \in DOMAIN calls /\ calls[i].kind = "upload"
    /\ upForm' = IF calls[i].live
                 THEN [upForm EXCEPT !.error = FailureText("Failed to upload videos: ", msg),
                                     !.loading = FALSE]
                 ELSE upForm
    /\ calls' = RemoveAt(calls, i)
    /\ UNCHANGED <<state, error, urlForm, selectedIds, js, handles, dmForm, nGen, fetched>>

\* the Back button of the upload stage (disabled while loading, except on
\* the No Videos Available screen)
BackToJobStatus ==
    /\ state.currentStep = "upload-reels"
    /\ Len(state.finishedVideos) = 0 \/ ~upForm.loading
    /\ Goto(handleBackToJobStatus(state), NoError)
    /\ UNCHANGED <<nGen, fetched>>

\* ------------------------------------------------------ DMFollowersForm
\* fetchFollowers after the await: getFollowers resolved
FollowersSuccess(i, followers) ==
    /\ i \in DOMAIN calls /\ calls[i].kind = "followers"
    /\ dmForm' = IF calls[i].live
                 THEN [dmForm EXCEPT !.followers = followers, !.error = NoError,
                                     !.loadingFollowers = FALSE]
                 ELSE dmForm
    /\ calls' = RemoveAt(calls, i)
    /\ UNCHANGED <<state, error, urlForm, selectedIds, js, handles, upForm, nGen, fetched>>

\* fetchFollowers after the await: getFollowers rejected
FollowersFailure(i, msg) ==
    /\ i \in DOMAIN calls /\ calls[i].kind = "followers"
    /\ dmForm' = IF calls[i].live
                 THEN [dmForm EXCEPT !.error = FailureText("Failed to fetch followers: ", msg),
                                     !.loadingFollowers = FALSE]
                 ELSE dmForm
    /\ calls' = RemoveAt(calls, i)
    /\ UNCHANGED <<state, error, urlForm, selectedIds, js, handles, upForm, nGen, fetched>>

\* the follower list with its checkboxes is rendered
FollowerListShown ==
    /\ state.currentStep = "dm-followers"
    /\ dmForm.dmResults = None
    /\ ~dmForm.loadingFollowers
    /\ Len(dmForm.followers) > 0

toggleFollower(sel, f) == IF f \in sel THEN sel \ {f} ELSE sel \cup {f}

\* a follower's row or checkbox
ToggleFollower(i) ==
    /\ FollowerListShown
    /\ i \in DOMAIN dmForm.followers
    /\ dmForm' = [dmForm EXCEPT !.selectedFollowers = toggleFollower(@, dmForm.followers[i])]
    /\ UNCHANGED <<state, error, urlForm, selectedIds, js, handles, upForm, calls, nGen, fetched>>

\* Select All of the share stage (disabled when all are selected, or sending)
DMSelectAll ==
    /\ FollowerListShown
    /\ Cardinality(dmForm.selectedFollowers) # Len(dmForm.followers)
    /\ ~dmForm.sendingDMs
    /\ dmForm' = [dmForm EXCEPT !.selectedFollowers =
                    {dmForm.followers[i] : i \in DOMAIN dmForm.followers}]
    /\ UNCHANGED <<state, error, urlForm, selectedIds, js, handles, upForm, calls, nGen, fetched>>

\* Clear All of the share stage (disabled when none is selected, or sending)
DMClearAll ==
    /\ FollowerListShown
    /\ Cardinality(dmForm.selectedFollowers) # 0
    /\ ~dmForm.sendingDMs
    /\ dmForm' = [dmForm EXCEPT !.selectedFollowers = {}]
    /\ UNCHANGED <<state, error, urlForm, selectedIds, js, handles, upForm, calls, nGen, fetched>>

\* is the Send DMs button there, and enabled?
SendAvailable ==
    /\ FollowerListShown
    /\ Cardinality(dmForm.selectedFollowers) > 0
    /\ ~dmForm.sendingDMs

\* handleSendDMs up to the await
SendDMs ==
    /\ SendAvailable
    /\ Len(calls) < MaxInFlight
    /\ dmForm' = [dmForm EXCEPT !.error = NoError, !.sendingDMs = TRUE, !.dmResults = None]
    /\ calls' = Append(calls, Call("dm", UrlEmpty, dmForm.selectedFollowers, NoJob))
    /\ UNCHANGED <<state, error, urlForm, selectedIds, js, handles, upForm, nGen, fetched>>

\* handleSendDMs after the await: dmFollowers resolved with dm_status
DMSuccess(i) ==
    /\ i \in DOMAIN calls /\ calls[i].kind = "dm"
    /\ \E dmStatus \in [calls[i].sel -> {"sent", "failed"}] :
          dmForm' = IF calls[i].live
                    THEN [dmForm EXCEPT !.dmResults = Some(dmStatus), !.sendingDMs = FALSE]
                    ELSE dmForm
    /\ calls' = RemoveAt(calls, i)
    /\ UNCHANGED <<state, error, urlForm, selectedIds, js, handles, upForm, nGen, fetched>>

\* handleSendDMs after the await: dmFollowers rejected
DMFailure(i, msg) ==
    /\ i \in DOMAIN calls /\ calls[i].kind = "dm"
    /\ dmForm' = IF calls[i].live
                 THEN [dmForm EXCEPT !.error = FailureText("Failed to send DMs: ", msg),
                                     !.sendingDMs = FALSE]
                 ELSE dmForm
    /\ calls' = RemoveAt(calls, i)
    /\ UNCHANGED <<state, error, urlForm, selectedIds, js, handles, upForm, nGen, fetched>>

\* the Back button of the share stage (disabled while sending)
BackToUpload ==
    /\ state.currentStep = "dm-followers"
    /\ ~dmForm.sendingDMs
    /\ Goto(handleBackToUpload(state), NoError)
    /\ UNCHANGED <<nGen, fetched>>

\* CampaignComplete offered before any result is there
CampaignComplete_BeforeResults ==
    /\ state.currentStep = "dm-followers"
    /\ Goto(handleCampaignComplete(state), NoError)
    /\ UNCHANGED <<nGen, fetched>>

\* the Continue button of the results view: onComplete
CampaignComplete ==
    /\ state.currentStep = "dm-followers"
    /\ dmForm.dmResults # None
    /\ Goto(handleCampaignComplete(state), NoError)
    /\ UNCHANGED <<nGen, fetched>>

\* ------------------------------------------------------ CampaignComplete
\* Create Another Campaign: onStartNew
StartNewCampaign ==
    /\ state.currentStep = "complete"
    /\ Goto(handleStartNewCampaign, NoError)
    /\ UNCHANGED <<nGen, fetched>>

\* ------------------------------------------------------- specification
Init ==
    /\ state = AppStateInit
    /\ error = NoError
    /\ urlForm = UrlFormInit
    /\ selectedIds = {}
    /\ js = JSInit
    /\ handles = [i \in 1..MaxAttach |-> FreeSlot]
    /\ upForm = UpFormInit(<<>>, <<>>)
    /\ dmForm = DmFormInit
    /\ calls = <<>>
    /\ nGen = 0
    /\ fetched = NotFetched

Next ==
    \/ \E u \in UrlInputs : SetVideoUrl(u)
    \/ \E l \in LanguageInputs : SetLanguage(l)
    \/ \E b \in BOOLEAN : SetNoAutoSubs(b)
    \/ Submit
    \/ \E i \in DOMAIN calls, hl \in ExtractResponses : ExtractSuccess(i, hl)
    \/ \E i \in DOMAIN calls, m \in ErrMessages : ExtractFailure(i, m)
    \/ \E id \in IdsOf(state.highlights) : ToggleHighlight(id)
    \/ SelectAll
    \/ ClearAll
    \/ BackToUrl
    \/ Generate
    \/ \E i \in DOMAIN calls : GenerateSuccess(i)
    \/ \E i \in DOMAIN calls, m \in ErrMessages : GenerateFailure(i, m)
    \/ \E h \in DOMAIN handles : \E c \in handles[h].conns : StreamOpen(h, c)
    \/ \E h \in DOMAIN handles : \E c \in handles[h].conns, d \in Payloads(handles[h].job) :
          StreamMessage(h, c, d)
    \/ \E h \in DOMAIN handles : \E c \in handles[h].conns : StreamError(h, c)
    \/ \E h \in DOMAIN handles : \E t \in handles[h].timers : TimerFire(h, t)
    \/ BackToHighlights
    \/ Restart
    \/ JobComplete
    \/ \E i \in DOMAIN state.finishedVideos : ToggleVideo(i)
    \/ UploadSelectAll
    \/ UploadClearAll
    \/ \E i \in DOMAIN state.finishedVideos, title \in TitleInputs : UpdateTitle(i, title)
    \/ Upload
    \/ \E i \in DOMAIN calls, rl \in ReelLinksResponses : UploadSuccess(i, rl)
    \/ \E i \in DOMAIN calls, m \in ErrMessages : UploadFailure(i, m)
    \/ BackToJobStatus
    \/ \E i \in DOMAIN calls, fs \in FollowersResponses : FollowersSuccess(i, fs)
    \/ \E i \in DOMAIN calls, m \in ErrMessages : FollowersFailure(i, m)
    \/ \E i \in DOMAIN dmForm.followers : ToggleFollower(i)
    \/ DMSelectAll
    \/ DMClearAll
    \/ SendDMs
    \/ \E i \in DOMAIN calls : DMSuccess(i)
    \/ \E i \in DOMAIN calls, m \in ErrMessages : DMFailure(i, m)
    \/ BackToUpload
    \/ CampaignComplete
    \/ StartNewCampaign

Spec == Init /\ [][Next]_vars

\* ------------------------------- specification of the generation stage
\* The stages url-submit, highlights-select and job-status with every handler
\* of URLSubmitForm, HighlightsSelector and JobStatusStream, and with room for
\* one effect run more than Spec has.  Left out: the Continue to Upload
\* button of JobStatusStream (JobComplete), so the stages from upload-reels
\* on, with all their handlers, are never entered.
InitGeneration ==
    /\ state = AppStateInit
    /\ error = NoError
    /\ urlForm = UrlFormInit
    /\ selectedIds = {}
    /\ js = JSInit
    /\ handles = [i \in 1..(MaxAttach + 1) |-> FreeSlot]
    /\ upForm = UpFormInit(<<>>, <<>>)
    /\ dmForm = DmFormInit
    /\ calls = <<>>
    /\ nGen = 0
    /\ fetched = NotFetched

NextGeneration ==
    \/ \E u \in UrlInputs : SetVideoUrl(u)
    \/ \E l \in LanguageInputs : SetLanguage(l)
    \/ \E b \in BOOLEAN : SetNoAutoSubs(b)
    \/ Submit
    \/ \E i \in DOMAIN calls, hl \in ExtractResponses : ExtractSuccess(i, hl)
    \/ \E i \in DOMAIN calls, m \in ErrMessages : ExtractFailure(i, m)
    \/ \E id \in IdsOf(state.highlights) : ToggleHighlight(id)
    \/ SelectAll
    \/ ClearAll
    \/ BackToUrl
    \/ Generate
    \/ \E i \in DOMAIN calls : GenerateSuccess(i)
    \/ \E i \in DOMAIN calls, m \in ErrMessages : GenerateFailure(i, m)
    \/ \E h \in DOMAIN handles : \E c \in handles[h].conns : StreamOpen(h, c)
    \/ \E h \in DOMAIN handles : \E c \in handles[h].conns, d \in Payloads(handles[h].job) :
          StreamMessage(h, c, d)
    \/ \E h \in DOMAIN handles : \E c \in handles[h].conns : StreamError(h, c)
    \/ \E h \in DOMAIN handles : \E t \in handles[h].timers : TimerFire(h, t)
    \/ BackToHighlights
    \/ Restart

SpecGeneration == InitGeneration /\ [][NextGeneration]_vars

\* ------------------------- specification of a job stream that never opens
\* The stages url-submit, highlights-select and job-status with every handler
\* of URLSubmitForm and HighlightsSelector and the buttons of JobStatusStream,
\* while the job runner cannot be reached.  Left out: the open and message
\* events of the EventSource (StreamOpen, StreamMessage); each EventSource
\* fails in the end and each retry timer fires in the end.  No update is ever
\* held, so Continue to Upload (JobComplete) is never rendered and the stages
\* from upload-reels on are never entered.
InitRetry == InitGeneration

NextRetry ==
    \/ \E u \in UrlInputs : SetVideoUrl(u)
    \/ \E l \in LanguageInputs : SetLanguage(l)
    \/ \E b \in BOOLEAN : SetNoAutoSubs(b)
    \/ Submit
    \/ \E i \in DOMAIN calls, hl \in ExtractResponses : ExtractSuccess(i, hl)
    \/ \E i \in DOMAIN calls, m \in ErrMessages : ExtractFailure(i, m)
    \/ \E id \in IdsOf(state.highlights) : ToggleHighlight(id)
    \/ SelectAll
    \/ ClearAll
    \/ BackToUrl
    \/ Generate
    \/ \E i \in DOMAIN calls : GenerateSuccess(i)
    \/ \E i \in DOMAIN calls, m \in ErrMessages : GenerateFailure(i, m)
    \/ \E h \in DOMAIN handles : \E c \in handles[h].conns : StreamError(h, c)
    \/ \E h \in DOMAIN handles : \E t \in handles[h].timers : TimerFire(h, t)
    \/ BackToHighlights
    \/ Restart

SpecRetry ==
    /\ InitRetry /\ [][NextRetry]_vars
    /\ \A h \in 1..(MaxAttach + 1) :
          /\ WF_vars(\E c \in handles[h].conns : StreamError(h, c))
          /\ WF_vars(\E t \in handles[h].timers : TimerFire(h, t))

\* ------------------------------- specification of the extraction stage
\* The stages url-submit and highlights-select with every handler of
\* URLSubmitForm and HighlightsSelector but one, and with two valid URLs to
\* submit.  Left out: the Generate button of HighlightsSelector (Generate),
\* so no generate call is issued and the stages from job-status on, with all
\* their handlers, are never entered.
InitExtraction == Init

NextExtraction ==
    \/ \E u \in UrlInputsTwo : SetVideoUrl(u)
    \/ \E l \in LanguageInputs : SetLanguage(l)
    \/ \E b \in BOOLEAN : SetNoAutoSubs(b)
    \/ Submit
    \/ \E i \in DOMAIN calls, hl \in ExtractResponses : ExtractSuccess(i, hl)
    \/ \E i \in DOMAIN calls, m \in ErrMessages : ExtractFailure(i, m)
    \/ \E id \in IdsOf(state.highlights) : ToggleHighlight(id)
    \/ SelectAll
    \/ ClearAll
    \/ BackToUrl

SpecExtraction == InitExtraction /\ [][NextExtraction]_vars

\* ------------------------------------------- specification of the transport
\* one fetchJSON call, observed from the response of fetch() to its outcome.
\* Left out: every handler of the components, which stay in their initial
\* state.
FetchJSON ==
    /\ fetched.response # None /\ fetched.outcome = None
    /\ fetched' = [fetched EXCEPT !.outcome = Some(fetchJSON(fetched.response[1]))]
    /\ UNCHANGED <<state, error, urlForm, selectedIds, js, handles, upForm, dmForm, calls, nGen>>

InitTransport ==
    /\ state = AppStateInit
    /\ error = NoError
    /\ urlForm = UrlFormInit
    /\ selectedIds = {}
    /\ js = JSInit
    /\ handles = [i \in 1..MaxAttach |-> FreeSlot]
    /\ upForm = UpFormInit(<<>>, <<>>)
    /\ dmForm = DmFormInit
    /\ calls = <<>>
    /\ nGen = 0
    /\ fetched \in {[response |-> Some(r), outcome |-> None] : r \in Responses}

NextTransport == FetchJSON

SpecTransport == InitTransport /\ [][NextTransport]_vars

\* --------------------------------- specification of the initial titles
\* JobStatusStream holds the finished update of job 1 with one video, and
\* the chosen segments are some of the highlights; Continue to Upload mounts
\* UploadReelsForm, which runs the initialisers of its state, and the user
\* selects videos and edits the title.  Left out: the events of the
\* EventSource (StreamMessage, StreamError); the Back, Start Over and
\* Generate More buttons of JobStatusStream (BackToHighlights, Restart); the
\* Back and Upload buttons of UploadReelsForm (BackToJobStatus, Upload).  So
\* the form stays mounted once it is, no call is issued and no stage other
\* than job-status and upload-reels is entered.
TitleSelections == {<<>>, <<SegA>>, <<SegB>>, <<SegA, SegB>>}

InitTitles ==
    /\ \E p \in Paths, sel \in TitleSelections :
          /\ state = [AppStateInit EXCEPT !.currentStep = "job-status",
                                          !.highlights = <<SegA, SegB>>,
                                          !.selectedHighlights = sel,
                                          !.videoUrl = Url1,
                                          !.jobId = 1]
          /\ js = [status |-> Some(JobStreamUpdate(1, "finished", Some(100), None, <<p>>, None)),
                   error |-> NoError]
    /\ error = NoError
    /\ urlForm = UrlFormInit
    /\ selectedIds = {}
    /\ handles = [i \in 1..MaxAttach |->
                    IF i = 1
                    THEN [EffectRun(1) EXCEPT !.conns = {[NewEventSource(TRUE) EXCEPT !.st = "open"]}]
                    ELSE FreeSlot]
    /\ upForm = UpFormInit(<<>>, <<>>)
    /\ dmForm = DmFormInit
    /\ calls = <<>>
    /\ nGen = 1
    /\ fetched = NotFetched

NextTitles ==
    \/ JobComplete
    \/ \E i \in DOMAIN state.finishedVideos : ToggleVideo(i)
    \/ UploadSelectAll
    \/ UploadClearAll
    \/ \E i \in DOMAIN state.finishedVideos, title \in TitleInputs : UpdateTitle(i, title)

SpecTitles == InitTitles /\ [][NextTitles]_vars

\* ================================================================ claims
ParseErrorText == <<"Failed to parse status update">>
TerminalErrorText == <<"Connection to status stream failed after multiple attempts">>
RetryText(k) == <<"Connection failed, retrying (", NumStr(k), "/", NumStr(maxRetries), ")...">>
Slots == DOMAIN handles
\* the render of this step runs the cleanup of the effect run in slot h
ReleaseStep(h) ==
    /\ ~handles[h].released
    /\ JSMounted(state)
    /\ ~JSMounted(state') \/ state'.jobId # state.jobId
\* slot h holds, after the step, the effect run it held before
SameRun(h) == handles'[h] # FreeSlot /\ handles'[h].released = handles[h].released

\* C1: in every reachable Campaign State the identifiers of selectedHighlights
\* are a subset of the identifiers of highlights.
C1_ChosenSubsetOfCandidates ==
    IdsOf(state.selectedHighlights) \subseteq IdsOf(state.highlights)

\* C2: once the job-status stage is left, the released effect run holds no
\* open connection and no timer, so no callback of it can fire any more.
C2_ReleasedRunIsSilent ==
    \A h \in Slots : handles[h].released => handles[h].conns = {} /\ handles[h].timers = {}

\* C3: a release that happens while a reconnection timer is pending cancels
\* the timer: the run is left with no timer and no connection, so the timer
\* scheduled before the release never opens a connection after it.
C3_ReleaseCancelsPendingTimer ==
    [][\A h \in Slots :
          (ReleaseStep(h) /\ handles[h].timers # {}) =>
              \/ handles'[h] = FreeSlot
              \/ ~handles'[h].released]_vars
\* a run in force is waiting for its retry timer while Back is available
C3_Witness ==
    \E h \in Slots : ~handles[h].released /\ handles[h].timers # {} /\ JSMounted(state)

\* C4: with no open acknowledgment in between, each of the first three
\* failures schedules one reconnection, and the 4th yields the terminal
\* stream error once, schedules nothing and leaves the run without a
\* connection from then on.
C4_FailedRunIsIdle ==
    \A h \in Slots :
        /\ handles[h].retryCount \in 0..maxRetries
        /\ handles[h].nTerminal \in 0..1
        /\ handles[h].nTerminal = 1 =>
              /\ handles[h].conns = {} /\ handles[h].timers = {}
              /\ handles[h].retryCount = maxRetries
C4_ErrorStep ==
    \A h \in Slots : \A c \in handles[h].conns :
        StreamError(h, c) =>
            IF handles[h].retryCount < maxRetries
            THEN /\ handles'[h].retryCount = handles[h].retryCount + 1
                 /\ Cardinality(handles'[h].timers) = 1
                 /\ handles'[h].nTerminal = 0
                 /\ Effective(h) => js'.error = RetryText(handles[h].retryCount + 1)
            ELSE /\ handles'[h].timers = {} /\ handles'[h].conns = {}
                 /\ ~handles[h].released => handles'[h].nTerminal = 1
                 /\ Effective(h) => js'.error = TerminalErrorText
C4_FourthFailureIsTerminal == [](C4_FailedRunIsIdle) /\ [][C4_ErrorStep]_vars
\* the run in force has failed terminally and the component shows the error
C4_Witness ==
    \E h \in Slots : /\ handles[h].nTerminal = 1 /\ ~handles[h].released
                     /\ js.error = TerminalErrorText

\* C5: an open acknowledgment, of the first connection or of a reconnection,
\* resets the retry counter to zero, so the next failure is retry 1 of 3.
C5_OpenStep ==
    \A h \in Slots : \A c \in handles[h].conns :
        /\ StreamOpen(h, c) => handles'[h].retryCount = 0
        /\ (StreamError(h, c) /\ c.st = "open") =>
              /\ handles'[h].retryCount = 1
              /\ handles'[h].timers = {[delay |-> BackoffUnitMs, latest |-> TRUE]}
              /\ Effective(h) => js'.error = RetryText(1)
C5_OpenResetsRetryCount ==
    /\ [](\A h \in Slots : \A c \in handles[h].conns :
             c.st = "open" => handles[h].retryCount = 0)
    /\ [][C5_OpenStep]_vars
\* a reconnection has been acknowledged
C5_Witness ==
    \E h \in Slots : /\ [st |-> "open", initial |-> FALSE] \in handles[h].conns
                     /\ handles[h].retryCount = 0

\* C6: the timer before the k-th consecutive reconnection attempt runs for
\* k * 2000 ms, k being the retry counter after its increment.
C6_LinearBackoff ==
    \A h \in Slots : \A t \in handles[h].timers :
        /\ handles[h].retryCount \in 1..3
        /\ t.delay = 2000 * handles[h].retryCount
\* the third retry is waiting for its timer
C6_Witness ==
    \E h \in Slots : \E t \in handles[h].timers : handles[h].retryCount = 3 /\ t.delay = 6000

\* C7: an effect run holds at most one connection, none while its retry
\* timer is pending, and a connection is opened only by the effect's run or
\* by the firing of the pending timer.
C7_NewConnection ==
    \A h \in Slots :
        (SameRun(h) /\ NewEventSource(FALSE) \in handles'[h].conns
                    /\ NewEventSource(FALSE) \notin handles[h].conns) =>
            /\ Cardinality(handles[h].timers) = 1
            /\ handles'[h].timers = {}
            /\ handles[h].conns = {}
C7_OneConnectionPerHandle ==
    /\ [](\A h \in Slots :
             /\ Cardinality(handles[h].conns) <= 1
             /\ Cardinality(handles[h].timers) <= 1
             /\ handles[h].conns # {} => handles[h].timers = {})
    /\ [][C7_NewConnection]_vars
\* a reconnection is under way: the one connection of the run is not its first
C7_Witness ==
    \E h \in Slots : handles[h].conns = {NewEventSource(FALSE)} /\ handles[h].retryCount = 2

\* C8: a message that fails to parse sets the parse-error text and changes
\* nothing else: the connection stays open, the held Status Update and the
\* retry counter stay, and a well-formed message that follows on the same
\* connection is delivered.
C8_MessageStep ==
    \A h \in Slots : \A c \in handles[h].conns :
        /\ StreamMessage(h, c, Malformed) =>
              /\ handles' = handles
              /\ js'.status = js.status
              /\ Effective(h) => js'.error = ParseErrorText
        /\ \A d \in Payloads(handles[h].job) \ {Malformed} :
              (StreamMessage(h, c, d) /\ Effective(h)) =>
                  js' = [status |-> Some(d.value[1]), error |-> NoError]
C8_ParseFailureIsNotFatal == [][C8_MessageStep]_vars
\* a Status Update is held, a later message failed to parse, the connection is open
C8_Witness ==
    /\ js.error = ParseErrorText /\ js.status # None
    /\ \E h \in Slots : ~handles[h].released /\ \E c \in handles[h].conns : c.st = "open"

\* C9: of each forward-transition call (extract, generate, upload, send DMs)
\* at most one is awaiting its response.
InFlight(kind) == Cardinality({i \in DOMAIN calls : calls[i].kind = kind})
C9_OneForwardCallInFlight ==
    \A kind \in {"extract", "generate", "upload", "dm"} : InFlight(kind) <= 1

\* C10: the failure of a remote call leaves currentStep as it is, puts the
\* failure's text in the error slot of the stage that issued the call, and
\* leaves that stage ready for the same action again.
C10_FailureStep ==
    \A i \in DOMAIN calls : \A m \in ErrMessages :
        /\ ExtractFailure(i, m) =>
              /\ state' = state /\ ~urlForm'.loading
              /\ urlForm'.error = FailureText("Failed to extract highlights: ", m)
        /\ GenerateFailure(i, m) =>
              /\ state' = state
              /\ error' = FailureText("Failed to start video generation: ", m)
        /\ UploadFailure(i, m) =>
              /\ state' = state /\ ~upForm'.loading
              /\ upForm'.error = FailureText("Failed to upload videos: ", m)
        /\ FollowersFailure(i, m) =>
              /\ state' = state /\ ~dmForm'.loadingFollowers
              /\ dmForm'.error = FailureText("Failed to fetch followers: ", m)
        /\ DMFailure(i, m) =>
              /\ state' = state /\ ~dmForm'.sendingDMs
              /\ dmForm'.error = FailureText("Failed to send DMs: ", m)
C10_FailedCallSurfacesOneError == [][C10_FailureStep]_vars

\* C11: in url-submit a submit of an empty or structurally invalid URL sets
\* the inline error of the form, issues no request and leaves the stage and
\* the Campaign State as they are.
C11_RejectStep ==
    (Submit /\ urlForm.videoUrl \in {UrlEmpty, UrlBad}) =>
        /\ urlForm'.error = IF urlForm.videoUrl = UrlEmpty
                            THEN <<"Please enter a YouTube URL">>
                            ELSE <<"Please enter a valid YouTube URL">>
        /\ ~urlForm'.loading
        /\ calls' = calls
        /\ state' = state
C11_InvalidUrlRejectedLocally == [][C11_RejectStep]_vars
\* an invalid URL has been submitted and rejected with nothing in flight
C11_Witness ==
    /\ state.currentStep = "url-submit" /\ urlForm.videoUrl = UrlBad
    /\ urlForm.error = <<"Please enter a valid YouTube URL">>
    /\ calls = <<>> /\ ~urlForm.loading

\* C12: jobId is null whenever currentStep is url-submit or highlights-select,
\* also after a generate response that arrives late.
C12_JobIdOnlyFromJobStatusOn ==
    state.currentStep \in {"url-submit", "highlights-select"} => state.jobId = NoJob

\* C13: a back navigation out of job-status or out of highlights-select clears
\* jobId and leaves no generate call awaiting its response, so that job-status
\* is entered next with the job of a generate call made after the navigation.
\* (A generate call is consumed by a later entry of job-status exactly when
\* it was awaiting its response at the navigation.)
C13_BackStep ==
    (BackToHighlights \/ Restart \/ BackToUrl) =>
        /\ state'.jobId = NoJob
        /\ InFlight("generate") = 0
C13_BackInvalidatesJob == [][C13_BackStep]_vars

\* C14: each go-back action moves currentStep one stage back and changes no
\* field of the Campaign State but currentStep and jobId.
StageIndex(step) == CHOOSE i \in DOMAIN Steps : Steps[i] = step
C14_BackStep ==
    (BackToUrl \/ BackToHighlights \/ BackToJobStatus \/ BackToUpload) =>
        /\ StageIndex(state'.currentStep) = StageIndex(state.currentStep) - 1
        /\ state'.videoUrl = state.videoUrl
        /\ state'.language = state.language
        /\ state'.noAutoSubs = state.noAutoSubs
        /\ state'.highlights = state.highlights
        /\ state'.selectedHighlights = state.selectedHighlights
        /\ state'.finishedVideos = state.finishedVideos
        /\ state'.reelLinks = state.reelLinks
C14_BackKeepsEarlierData == [][C14_BackStep]_vars
\* the user has gone back from the share stage to url-submit: all the data
\* of the stages passed is still there
C14_Witness ==
    /\ state.currentStep = "url-submit" /\ state.jobId = NoJob
    /\ state.highlights # <<>> /\ state.selectedHighlights # <<>>
    /\ state.finishedVideos # <<>> /\ state.reelLinks # <<>>

\* C15: going back from upload-reels to job-status opens no stream
\* connection: no effect run holds a connection it did not hold before.
C15_BackStep ==
    BackToJobStatus => \A h \in Slots : handles'[h].conns \subseteq handles[h].conns
C15_BackToJobStatusOpensNoConnection == [][C15_BackStep]_vars

\* C16: within one campaign videoUrl, once set, never changes: only the
\* new-campaign reset changes a videoUrl that is set.
C16_Step ==
    (state.videoUrl # UrlEmpty /\ state'.videoUrl # state.videoUrl) =>
        /\ state.currentStep = "complete"
        /\ state' = AppStateInit
C16_VideoUrlSetOnce == [][C16_Step]_vars

\* C17: currentStep goes from job-status to upload-reels only when the held
\* Status Update is finished with at least one finished video, and that
\* update's finished_videos are stored; finishedVideos never holds anything
\* but the videos of a finished update.
FinishedVideoLists ==
    {d.value[1].finished_videos :
        d \in {p \in UNION {Payloads(j) : j \in 1..MaxGenerate} :
                  p.json /\ p.value[1].status = "finished"}}
C17_Step ==
    /\ (state.currentStep = "job-status" /\ state'.currentStep = "upload-reels") =>
          /\ js.status # None
          /\ js.status[1].status = "finished"
          /\ Len(js.status[1].finished_videos) > 0
          /\ state'.finishedVideos = js.status[1].finished_videos
    /\ state'.finishedVideos # state.finishedVideos =>
          \/ state.currentStep = "job-status" /\ state'.currentStep = "upload-reels"
          \/ state'.finishedVideos = <<>>
C17_UploadOnlyAfterFinished ==
    /\ [](state.finishedVideos # <<>> => state.finishedVideos \in FinishedVideoLists)
    /\ [][C17_Step]_vars
\* the finished update's videos have been stored on the way to upload-reels
C17_Witness ==
    /\ state.currentStep = "upload-reels"
    /\ state.finishedVideos = <<VideoA>>
    /\ state.jobId # NoJob

\* C18: every generate request carries at least one chosen segment.
C18_GenerateNeedsSelection ==
    \A i \in DOMAIN calls : calls[i].kind = "generate" => calls[i].sel # <<>>

\* C19: the new-campaign reset leaves every field of the Campaign State at
\* its initial value, and only a step taken in the complete stage brings a
\* changed Campaign State back to the initial one.
C19_ResetStep ==
    /\ StartNewCampaign => state' = AppStateInit /\ state.currentStep = "complete"
    /\ (state # AppStateInit /\ state' = AppStateInit) => state.currentStep = "complete"
C19_ResetRestoresInitialState == [][C19_ResetStep]_vars
\* a campaign has been run through and reset
C19_Witness ==
    /\ state = AppStateInit /\ nGen >= 1 /\ urlForm = UrlFormInit /\ calls = <<>>

\* C20: the step that consumes the finished update stores its videos, moves
\* to upload-reels and releases the effect run in force for good: the run is
\* left with no connection and no timer, so nothing is left to release.
C20_Step ==
    JobComplete =>
        /\ state'.finishedVideos = js.status[1].finished_videos
        /\ state'.currentStep = "upload-reels"
        /\ \A h \in Slots : ~handles[h].released => handles'[h] = FreeSlot
C20_FinishedUpdateReleasesHandle == [][C20_Step]_vars

\* C21: a terminal Status Update (finished or error) closes nothing and
\* cancels nothing: the connection it came on stays open, and a connection
\* failure after it is retried by the policy like any other.
TerminalPayloads(j) ==
    {d \in Payloads(j) : d.json /\ d.value[1].status \in {"finished", "error"}}
C21_Step ==
    \A h \in Slots : \A c \in handles[h].conns :
        /\ \A d \in TerminalPayloads(handles[h].job) :
              StreamMessage(h, c, d) => handles' = handles /\ c \in handles'[h].conns
        /\ (StreamError(h, c) /\ isCompleted(js) /\ Effective(h)
                /\ handles[h].retryCount < maxRetries) =>
              /\ handles'[h].timers =
                    {[delay |-> BackoffDelay(handles[h].retryCount + 1), latest |-> TRUE]}
              /\ handles'[h].retryCount = handles[h].retryCount + 1
C21_TerminalUpdateKeepsStream == [][C21_Step]_vars
\* a terminal update is held and the run in force is waiting to reconnect
C21_Witness ==
    /\ JSMounted(state) /\ isCompleted(js)
    /\ \E h \in Slots : ~handles[h].released /\ handles[h].timers # {}

\* C22: a fetchJSON call ends with the parsed value or with an APIError that
\* carries the response's status and its body text, or its statusText when
\* the body is empty; it ends with no error of another class.
C22_EveryOutcomeTyped ==
    fetched.outcome # None =>
        LET r == fetched.response[1]
            o == fetched.outcome[1]
        IN  /\ o.kind \in {"value", "APIError"}
            /\ o.kind = "APIError" =>
                  /\ o.status = r.status
                  /\ o.message = IF r.body.text # "" THEN r.body.text ELSE r.statusText
            /\ o.kind = "value" => r.body.json = Some(o.value)

\* C23: a Status Update that arrives a second time in a row changes nothing:
\* the held snapshot, the error, and with them isCompleted and the buttons
\* offered, and the Campaign State are what they were after the first.
C23_Step ==
    \A h \in Slots : \A c \in handles[h].conns :
        \A d \in Payloads(handles[h].job) \ {Malformed} :
            (StreamMessage(h, c, d) /\ Effective(h)
                /\ js.status = Some(parseJobStreamData(d)) /\ js.error = NoError) =>
                /\ js' = js
                /\ isCompleted(js') = isCompleted(js)
                /\ CompleteAvailable(js') = CompleteAvailable(js)
                /\ RestartAvailable(js') = RestartAvailable(js)
                /\ state' = state
C23_RepeatedUpdateIsIdempotent == [][C23_Step]_vars
\* an update has been received and its connection is open for the same again
C23_Witness ==
    /\ JSMounted(state) /\ StatusIs(js, {"generating"}) /\ js.error = NoError
    /\ \E h \in Slots : /\ ~handles[h].released /\ handles[h].job = state.jobId
                        /\ \E c \in handles[h].conns : c.st = "open"

\* C24: each message that parses replaces the held snapshot in full, in the
\* order of arrival: after the message the snapshot is that message, with no
\* field of the snapshot before; a message that does not parse leaves it.
C24_Step ==
    \A h \in Slots : \A c \in handles[h].conns : \A d \in Payloads(handles[h].job) :
        (StreamMessage(h, c, d) /\ Effective(h)) =>
            IF JsonParses(d)
            THEN LET u == parseJobStreamData(d) IN
                 /\ js'.status # None
                 /\ js'.status[1].job_id = u.job_id
                 /\ js'.status[1].status = u.status
                 /\ js'.status[1].progress = u.progress
                 /\ js'.status[1].current_task = u.current_task
                 /\ js'.status[1].finished_videos = u.finished_videos
                 /\ js'.status[1].error_message = u.error_message
            ELSE js'.status = js.status
C24_UpdateSupersedesSnapshot == [][C24_Step]_vars
\* the finished update is held: nothing of an earlier update is in it
C24_Witness ==
    /\ JSMounted(state) /\ StatusIs(js, {"finished"})
    /\ js.status[1].current_task = None /\ js.status[1].error_message = None
    /\ js.status[1].progress = Some(100)

\* C25: a stream event (open, message, error, timer) changes nothing but the
\* effect runs and the state of JobStatusStream; the Campaign State and the
\* other components stay as they are.
C25_Step ==
    (\E h \in Slots :
        \/ \E c \in handles[h].conns :
              \/ StreamOpen(h, c)
              \/ StreamError(h, c)
              \/ \E d \in Payloads(handles[h].job) : StreamMessage(h, c, d)
        \/ \E t \in handles[h].timers : TimerFire(h, t)) =>
        /\ state' = state
        /\ UNCHANGED <<error, urlForm, selectedIds, upForm, dmForm, calls>>
C25_StreamEventsKeepCampaignState == [][C25_Step]_vars
\* a finished update with a video is held and the Campaign State still has
\* no finished videos
C25_Witness ==
    /\ JSMounted(state) /\ CompleteAvailable(js)
    /\ state.finishedVideos = <<>>

\* C26: when a generate, upload, getFollowers or dmFollowers request is sent,
\* no effect run holds a connection or a pending timer.
C26_Step ==
    (/\ Len(calls') > Len(calls)
     /\ calls'[Len(calls')].kind \in {"generate", "upload", "followers", "dm"}) =>
        \A h \in Slots : handles'[h].conns = {} /\ handles'[h].timers = {}
C26_NoStreamWhenCallIsIssued == [][C26_Step]_vars

\* C27: while the terminal stream error is the error of the mounted
\* JobStatusStream, the error panel is rendered (no Status Update is held in
\* its place) and a restart button is offered.
C27_TerminalErrorOffersRestart ==
    (JSMounted(state) /\ js.error = TerminalErrorText) =>
        /\ js.status = None
        /\ RestartAvailable(js)

\* C28: while JobStatusStream is mounted, an effect run is in force for the
\* current jobId, and every connection or timer whose callbacks reach the
\* mounted component belongs to a run for the current jobId.
C28_StreamIsForCurrentJob ==
    JSMounted(state) =>
        /\ \E h \in Slots : ~handles[h].released /\ handles[h].job = state.jobId
        /\ \A h \in Slots :
              (handles[h].mounted /\ (handles[h].conns # {} \/ handles[h].timers # {})) =>
                  handles[h].job = state.jobId

\* C29: the success of the extract call finds currentStep at url-submit,
\* stores the URL that was submitted and the highlights returned, as
\* returned, and sets currentStep to highlights-select.
C29_Step ==
    \A i \in DOMAIN calls : \A hl \in ExtractResponses :
        ExtractSuccess(i, hl) =>
            /\ state.currentStep = "url-submit"
            /\ state'.videoUrl = calls[i].url
            /\ state'.highlights = hl
            /\ state'.currentStep = "highlights-select"
            /\ validateYouTubeURL(state'.videoUrl)
C29_ExtractSuccessStoresResult == [][C29_Step]_vars

\* C30: currentStep becomes complete only from dm-followers and only with
\* the results of a dmFollowers call on display, and the results get there
\* only by the success of a dm call issued by the mounted form.
C30_Step ==
    /\ (state'.currentStep = "complete" /\ state.currentStep # "complete") =>
          /\ state.currentStep = "dm-followers"
          /\ dmForm.dmResults # None
    /\ (dmForm'.dmResults # None /\ dmForm.dmResults = None) =>
          \E i \in DOMAIN calls :
              /\ calls[i].kind = "dm" /\ calls[i].live
              /\ calls' = RemoveAt(calls, i)
              /\ state.currentStep = "dm-followers"
C30_CompleteOnlyAfterDMResults == [][C30_Step]_vars
\* the campaign has been completed
C30_Witness == state.currentStep = "complete" /\ state.reelLinks # <<>>

\* C31: while the Status Update held by the mounted JobStatusStream has
\* status error, a restart button is offered, Continue to Upload is not, and
\* currentStep leaves job-status only by a button of the stage (Back / Start
\* Over or the restart), never to upload-reels.
C31_Step ==
    (JSMounted(state) /\ StatusIs(js, {"error"})) =>
        /\ RestartAvailable(js)
        /\ ~CompleteAvailable(js)
        /\ state'.currentStep # "upload-reels"
        /\ (state'.currentStep # "job-status") => (BackToHighlights \/ Restart)
C31_ErrorUpdateIsTerminal == [][C31_Step]_vars

\* C32: every change of currentStep goes to the next stage of the order
\* url-submit, highlights-select, job-status, upload-reels, dm-followers,
\* complete, or to the previous one, or from complete to url-submit; so
\* job-status is entered forward from highlights-select only.
C32_Step ==
    state'.currentStep # state.currentStep =>
        \/ StageIndex(state'.currentStep) = StageIndex(state.currentStep) + 1
        \/ StageIndex(state'.currentStep) = StageIndex(state.currentStep) - 1
        \/ state.currentStep = "complete" /\ state'.currentStep = "url-submit"
C32_StageChangesAreAdjacent == [][C32_Step]_vars

\* C33: the title proposed for a finished video is found from the file name
\* of its path with the suffix .mp4 and the prefix out_ stripped: the title
\* of a chosen segment with that identifier and a non-empty title if there
\* is one, otherwise the stripped name with spaces for underscores and its
\* first letter capitalised.
C33_Stripped(path) ==
    LET name == FileNameOf(path)
        stem == IF name # <<>> /\ name[Len(name)] = ".mp4"
                THEN SubSeq(name, 1, Len(name) - 1) ELSE name
    IN  StripOutPrefix(stem)
C33_TitlesOf(path, sel) ==
    {sel[i].title : i \in {k \in DOMAIN sel :
        sel[k].id_ = Join(C33_Stripped(path)) /\ sel[k].title # ""}}
C33_CleanName(path) ==
    LET spaced == [i \in DOMAIN C33_Stripped(path) |-> Spaced(C33_Stripped(path)[i])]
    IN  IF spaced = <<>> THEN "" ELSE Capitalised(Head(spaced)) \o Join(Tail(spaced))
C33_Step ==
    JobComplete =>
        \A p \in DOMAIN upForm'.titles :
            IF C33_TitlesOf(p, state.selectedHighlights) # {}
            THEN upForm'.titles[p] \in C33_TitlesOf(p, state.selectedHighlights)
            ELSE upForm'.titles[p] = C33_CleanName(p)
C33_TitleFromFileName == [][C33_Step]_vars

\* C34: in every reachable state currentStep = job-status implies that
\* jobId is not null, so the job-status stage always renders JobStatusStream.
C34_JobStatusHasJobId ==
    state.currentStep = "job-status" => state.jobId # NoJob

\* C35: in every reachable state currentStep = upload-reels implies that
\* finishedVideos is not empty (the No Videos Available fallback is never
\* shown), and currentStep in {dm-followers, complete} implies that an
\* upload call has succeeded since the last reset (reelLinks, emptied by
\* the reset, holds its answer, which is never empty here).
C35_UploadStageHasVideos ==
    /\ state.currentStep = "upload-reels" => state.finishedVideos # <<>>
    /\ state.currentStep \in {"dm-followers", "complete"} => state.reelLinks # <<>>

\* C36: for every effect run retryCount stays within 0..maxRetries, a retry
\* timer is pending only while retryCount is in 1..maxRetries, and at most
\* one retry timer is pending at a time.
C36_RetryCounterAndTimer ==
    \A h \in Slots :
        /\ handles[h].retryCount \in 0..maxRetries
        /\ handles[h].timers # {} => handles[h].retryCount \in 1..maxRetries
        /\ Cardinality(handles[h].timers) <= 1
C36_Witness ==
    \E h \in Slots : handles[h].timers # {} /\ handles[h].retryCount = maxRetries

\* C37: while JobStatusStream is mounted, the Status Update it holds, if
\* any, is an update of the current jobId; so the finished videos Continue
\* to Upload would pass on are those of the current job.
C37_HeldStatusIsOfCurrentJob ==
    (JSMounted(state) /\ js.status # None) => js.status[1].job_id = state.jobId

\* C38: while an upload call is in flight neither the Back button of the
\* upload stage nor a second Upload is taken, and its response is applied
\* while currentStep is upload-reels; likewise for a send-DMs call, the Back
\* button and the Send button of the share stage, and dm-followers.
C38_Step ==
    /\ (Upload \/ BackToJobStatus) => InFlight("upload") = 0
    /\ (SendDMs \/ BackToUpload) => InFlight("dm") = 0
    /\ \A i \in DOMAIN calls :
          /\ ((\E rl \in ReelLinksResponses : UploadSuccess(i, rl))
                 \/ (\E m \in ErrMessages : UploadFailure(i, m)))
                => state.currentStep = "upload-reels"
          /\ (DMSuccess(i) \/ (\E m \in ErrMessages : DMFailure(i, m)))
                => state.currentStep = "dm-followers"
C38_CallsHoldTheirStage == [][C38_Step]_vars

\* C39: in the highlight selector selectedIds is always a subset of the
\* identifiers of the displayed highlights; toggling a highlight twice gives
\* the selection back; select-all followed by clear-all gives the empty
\* selection; and the list handed to generation holds exactly the displayed
\* highlights whose identifier is selected, in the displayed order, each once.
C39_Positions(list, h) == {i \in DOMAIN list : list[i] = h}
C39_Handed(list) ==
    /\ \A i \in DOMAIN list :
          /\ list[i].id_ \in selectedIds
          /\ C39_Positions(state.highlights, list[i]) # {}
          /\ C39_Positions(list, list[i]) = {i}
    /\ \A k \in DOMAIN state.highlights :
          state.highlights[k].id_ \in selectedIds =>
              C39_Positions(list, state.highlights[k]) # {}
    /\ \A i, k \in DOMAIN list :
          i < k => \E a, b \in DOMAIN state.highlights :
                      a < b /\ state.highlights[a] = list[i] /\ state.highlights[b] = list[k]
C39_Step ==
    /\ state.currentStep = "highlights-select" => selectedIds \subseteq IdsOf(state.highlights)
    /\ \A id \in IdsOf(state.highlights) :
          ToggleHighlight(id) => toggleHighlight(selectedIds', id) = selectedIds
    /\ SelectAll => (selectedIds' = IdsOf(state.highlights) /\ clearAll = {})
    /\ Generate => C39_Handed(calls'[Len(calls')].sel)
C39_SelectionAlgebra == [][C39_Step]_vars

\* C40: when no connection attempt of an effect run is ever acknowledged,
\* every attempt fails and every timer fires, the run makes the initial
\* attempt and the retries 1, 2 and 3, one per timer, the failure of the
\* attempt made at retryCount = 3 is terminal, and the run ends up without
\* a connection and without a timer; so retries go on only as long as an
\* open acknowledgment resets retryCount.
C40_Busy(h) == handles[h].conns # {} \/ handles[h].timers # {}
C40_Step ==
    \A h \in Slots :
        /\ \A t \in handles[h].timers :
              TimerFire(h, t) =>
                  /\ handles[h].retryCount \in 1..maxRetries
                  /\ t.delay = BackoffDelay(handles[h].retryCount)
                  /\ handles'[h].retryCount = handles[h].retryCount
                  /\ handles'[h].conns = {NewEventSource(FALSE)}
                  /\ handles'[h].timers = {}
        /\ \A c \in handles[h].conns :
              StreamError(h, c) =>
                  IF handles[h].retryCount = maxRetries
                  THEN ~C40_Busy(h)'
                  ELSE /\ handles'[h].retryCount = handles[h].retryCount + 1
                       /\ handles'[h].conns = {}
                       /\ Cardinality(handles'[h].timers) = 1
        /\ (handles[h].nTerminal = 1 /\ handles'[h].nTerminal = 1) => ~C40_Busy(h)'
C40_FailingStreamGivesUp ==
    /\ [][C40_Step]_vars
    /\ \A h \in 1..(MaxAttach + 1) : C40_Busy(h) ~> ~C40_Busy(h)
C40_Witness ==
    \E h \in Slots :
        /\ handles[h].nTerminal = 1 /\ ~handles[h].released
        /\ handles[h].retryCount = maxRetries /\ ~C40_Busy(h)
        /\ JSMounted(state) /\ js.error = TerminalErrorText

====
